---- MODULE Spec2Model ----
(***************************************************************************)
(* A model of core-storage: DatabaseImpl (lib/database.ts) over            *)
(* TypeIndexRecord / Entity (lib/type-index.ts), with the tag primitives   *)
(* of @glimmer/reference (DirtyableTag, consume, compute) that the store   *)
(* is built on.                                                            *)
(*                                                                         *)
(* Objects with identity live in two heaps: `tags` holds the stamp of each *)
(* DirtyableTag (a tag is its index in the heap) and `objs` holds each     *)
(* properties object (a checkout returns an index into it).                *)
(***************************************************************************)
EXTENDS Integers, Sequences, FiniteSets, TLC

\* ------------------------------------------------------------------ bounds
\* number of distinct id values (uuids and caller-supplied ids)
MaxId == 2
\* no mutation starts once the global revision has reached this value
MaxRevision == 3
\* an insert with any reference at all is made while fewer than this many
\* mutations have been made
MaxCalls == 3

\* ------------------------------------------------------------- value sets
Ids == {"id" \o ToString(i) : i \in 1..MaxId}
Types == {"person", "article"}
Null == "null"
Names == {"Tom Dale", "Thomas Dale"}
Associations == {"Tilde", "Tilde, Inc."}
InitialAssociation == "Tilde"

\* the order in which the keys of a properties literal are enumerated
KeyOrder == <<"name", "association", "author">>

KeysOf(data) == SelectSeq(KeyOrder, LAMBDA k : k \in DOMAIN data)

PropertyKeys(type) ==
  IF type = "person" THEN {"name", "association"} ELSE {"author"}

PropertyValues(key) ==
  CASE key = "name" -> Names
    [] key = "association" -> Associations
    [] key = "author" -> Ids \cup {Null}

\* Properties<S, K>: every property of the type is given.  A person is
\* inserted with the first association; patches give the other one.
Properties(type) ==
  IF type = "person"
  THEN [name : Names, association : {InitialAssociation}]
  ELSE [author : Ids \cup {Null}]

\* Partial<Properties<S, K>>: any subset of the keys
PartialProperties(type) ==
  UNION {[ks -> UNION {PropertyValues(k) : k \in ks}] : ks \in SUBSET PropertyKeys(type)}

Updates(type) ==
  {u \in PartialProperties(type) : \A k \in DOMAIN u : u[k] \in PropertyValues(k)}

\* the registrations made by the test suites: both types are UUID-keyed,
\* person has the derived function length and article has byline
DerivedNames(type) == IF type = "person" THEN {"length"} ELSE {"byline"}
QueryNames == {"articles"}

\* KeyType
KeyTypes == {"UUID", "Singleton"}

\* registrations[type] === undefined
NoRegistration == "none"

\* a name that no registration and no query registration has
UnknownName == "unknown"

VARIABLES
  registrations,  \* Index.registrations: per type, the key type it is registered with
  revision,     \* $REVISION, the global version counter of the tag library
  tags,         \* heap of DirtyableTags: tags[t] is the stamp of tag t
  objs,         \* heap of properties objects
  indexByType,  \* Index.indexByType: per type, its TypeIndexImpl (or none yet)
  issued,       \* id values already in use, which uuid() will not return again
  comp,         \* the reference returned by the last query()/dbQuery() call
  last,         \* the last store mutation and its arguments
  frames        \* the frame stack of the dependency tracker: sets of tags

vars == <<registrations, revision, tags, objs, indexByType, issued, comp, last, frames>>

\* the store as one value, for the operators below
Store ==
  [revision |-> revision, tags |-> tags, objs |-> objs, indexByType |-> indexByType]

EmptyDict == [i \in {} |-> {}]
NoIndex == [exists |-> FALSE]

Max(S) == IF S = {} THEN 0 ELSE CHOOSE m \in S : \A x \in S : x <= m

\* position of k in the sequence ks
IndexOf(ks, k) == CHOOSE i \in 1..Len(ks) : ks[i] = k

\* --------------------------------------------------- tags (@glimmer/reference)
\* DirtyableTag.create(): a new tag stamped with the current revision
DirtyableTag_create(s) == [s EXCEPT !.tags = Append(@, s.revision)]

\* tag.inner.dirty() stamping the tag with the current revision, drawing none
DirtyableTag_dirty_KeepsRevision(s, t) == [s EXCEPT !.tags[t] = s.revision]

\* tag.inner.dirty(): draw the next revision and stamp the tag with it
DirtyableTag_dirty(s, t) ==
  [s EXCEPT !.revision = @ + 1, !.tags[t] = s.revision + 1]

Tag_value(s, t) == s.tags[t]

Tag_validate(s, t, snapshot) == Tag_value(s, t) = snapshot

\* the tag of a compute() reference: the maximum over the tags consumed by
\* the last evaluation
ComputedTag_value(s, children) == Max({Tag_value(s, t) : t \in children})

ComputedTag_validate(s, children, snapshot) ==
  ComputedTag_value(s, children) = snapshot

RECURSIVE CreateTags(_, _)
CreateTags(s, n) ==
  IF n = 0 THEN s ELSE CreateTags(DirtyableTag_create(s), n - 1)

RECURSIVE DirtyEach(_, _)
DirtyEach(s, ts) ==
  IF ts = <<>> THEN s ELSE DirtyEach(DirtyableTag_dirty(s, Head(ts)), Tail(ts))

\* ------------------------------------------------------------------ Entity
\* new Entity(properties): keeps the caller's properties object, creates the
\* entity tag and one property tag per key.  Yields the store and the entity.
Entity_new(s, properties) ==
  LET ks == KeysOf(properties)
      et == Len(s.tags) + 1
      s1 == CreateTags(s, 1 + Len(ks))
      s2 == [s1 EXCEPT !.objs = Append(@, properties)]
  IN  [s |-> s2,
       e |-> [properties |-> Len(s2.objs),
              entityTag |-> et,
              propertyTags |-> [k \in DOMAIN properties |-> et + IndexOf(ks, k)],
              derivedTags |-> EmptyDict]]

\* Entity.getDerivedTag(key) creating a tag at every call
Entity_getDerivedTag_AlwaysCreates(s, e, key) ==
  LET s1 == DirtyableTag_create(s)
      t == Len(s1.tags)
  IN  [s |-> s1, tag |-> t,
       e |-> [e EXCEPT !.derivedTags =
                [k \in DOMAIN @ \cup {key} |-> IF k = key THEN t ELSE @[k]]]]

\* Entity.getDerivedTag(key): the tag kept under the key, created and kept
\* at the first call.  Yields the store, the entity and the tag.
Entity_getDerivedTag(s, e, key) ==
  IF key \in DOMAIN e.derivedTags
  THEN [s |-> s, e |-> e, tag |-> e.derivedTags[key]]
  ELSE LET s1 == DirtyableTag_create(s)
           t == Len(s1.tags)
       IN  [s |-> s1, tag |-> t,
            e |-> [e EXCEPT !.derivedTags =
                     [k \in DOMAIN @ \cup {key} |-> IF k = key THEN t ELSE @[k]]]]

\* Entity.dirty(data) leaving the entity tag alone
Entity_dirty_SkipsEntityTag(s, e, data) ==
  LET ks == SelectSeq(KeysOf(data), LAMBDA k : k \in DOMAIN e.propertyTags)
      ts == [i \in 1..Len(ks) |-> e.propertyTags[ks[i]]]
  IN  DirtyEach(s, ts)

\* Entity.dirty(data) dirtying the tag of every property, as EntityTags.dirty
\* of the older index does
Entity_dirty_DirtiesAll(s, e, data) ==
  LET ks == SelectSeq(KeyOrder, LAMBDA k : k \in DOMAIN e.propertyTags)
      ts == [i \in 1..Len(ks) |-> e.propertyTags[ks[i]]]
  IN  DirtyableTag_dirty(DirtyEach(s, ts), e.entityTag)

\* Entity.dirty(data): the tag of each key of data that has one, then the entity tag
Entity_dirty(s, e, data) ==
  LET ks == SelectSeq(KeysOf(data), LAMBDA k : k \in DOMAIN e.propertyTags)
      ts == [i \in 1..Len(ks) |-> e.propertyTags[ks[i]]]
  IN  DirtyableTag_dirty(DirtyEach(s, ts), e.entityTag)

\* Entity.dirtyAll() dirtying the entity tag alone
Entity_dirtyAll_EntityOnly(s, e) == DirtyableTag_dirty(s, e.entityTag)

\* Entity.dirtyAll(): every property tag, then the entity tag
Entity_dirtyAll(s, e) ==
  LET ks == SelectSeq(KeyOrder, LAMBDA k : k \in DOMAIN e.propertyTags)
      ts == [i \in 1..Len(ks) |-> e.propertyTags[ks[i]]]
  IN  DirtyableTag_dirty(DirtyEach(s, ts), e.entityTag)

\* { ...this.properties, ...updates }
Merge(properties, updates) ==
  [k \in DOMAIN properties \cup DOMAIN updates |->
     IF k \in DOMAIN updates THEN updates[k] ELSE properties[k]]

\* Entity.patchProperties(updates) dirtying without storing the updates
Entity_patchProperties_KeepsOld(s, e, updates) ==
  [s |-> Entity_dirty(s, e, updates), e |-> e]

\* Entity.patchProperties(updates) assigning the updates into the properties
\* object it holds
Entity_patchProperties_InPlace(s, e, updates) ==
  LET s1 == [s EXCEPT !.objs[e.properties] = Merge(@, updates)]
  IN  [s |-> Entity_dirty(s1, e, updates), e |-> e]

\* Entity.patchProperties(updates): a new properties object replaces the old
\* one, then dirty(updates).  Yields the store and the entity.
Entity_patchProperties(s, e, updates) ==
  LET s1 == [s EXCEPT !.objs = Append(@, Merge(s.objs[e.properties], updates))]
      e1 == [e EXCEPT !.properties = Len(s1.objs)]
  IN  [s |-> Entity_dirty(s1, e1, updates), e |-> e1]

Entity_getProperties(s, e) == s.objs[e.properties]

\* -------------------------------------------- TypeIndexRecord, TypeIndexImpl
Has(idx, id) == idx.exists /\ id \in DOMAIN idx.entities

\* entities[id] = e keeping a list of keys, to which every insert adds
SetEntity_AlwaysAppends(idx, id, e) ==
  [idx EXCEPT
     !.entities = [i \in DOMAIN idx.entities \cup {id} |->
                     IF i = id THEN e ELSE idx.entities[i]],
     !.order = Append(@, id)]

\* entities[id] = e: a new key goes last in Object.keys order, an existing
\* key keeps its place
SetEntity(idx, id, e) ==
  [idx EXCEPT
     !.entities = [i \in DOMAIN idx.entities \cup {id} |->
                     IF i = id THEN e ELSE idx.entities[i]],
     !.order = IF id \in DOMAIN idx.entities THEN @ ELSE Append(@, id)]

\* delete entities[id] emptying the dictionary
DeleteEntity_Clears(idx, id) ==
  [idx EXCEPT !.entities = EmptyDict, !.order = <<>>]

\* delete entities[id] leaving the key enumerable
DeleteEntity_KeepsOrder(idx, id) ==
  [idx EXCEPT
     !.entities = [i \in DOMAIN idx.entities \ {id} |-> idx.entities[i]]]

\* delete entities[id]
DeleteEntity(idx, id) ==
  [idx EXCEPT
     !.entities = [i \in DOMAIN idx.entities \ {id} |-> idx.entities[i]],
     !.order = SelectSeq(@, LAMBDA i : i # id)]

\* Index.indexFor(type): the type's TypeIndexImpl, created on first use with
\* a fresh allTag
Index_indexFor(s, type) ==
  IF s.indexByType[type].exists THEN s
  ELSE LET s1 == DirtyableTag_create(s)
       IN  [s1 EXCEPT !.indexByType[type] =
              [exists |-> TRUE, allTag |-> Len(s1.tags),
               entities |-> EmptyDict, order |-> <<>>]]

\* TypeIndexRecord.insert(key, data) storing the data in the entity that is
\* present under the key, which keeps its tags and their stamps
TypeIndexRecord_insert_KeepsTags(s, type, id, data) ==
  IF id \in DOMAIN s.indexByType[type].entities
  THEN LET s1 == [s EXCEPT !.objs = Append(@, data)]
           e1 == [s.indexByType[type].entities[id] EXCEPT !.properties = Len(s1.objs)]
           s2 == [s1 EXCEPT !.indexByType[type] = SetEntity(@, id, e1)]
       IN  DirtyableTag_dirty(s2, s2.indexByType[type].allTag)
  ELSE LET n == Entity_new(s, data)
           s1 == [n.s EXCEPT !.indexByType[type] = SetEntity(@, id, n.e)]
       IN  DirtyableTag_dirty(s1, s1.indexByType[type].allTag)

\* TypeIndexRecord.insert(key, data) dirtying allTag before it creates the
\* entity
TypeIndexRecord_insert_DirtiesFirst(s, type, id, data) ==
  LET s0 == DirtyableTag_dirty(s, s.indexByType[type].allTag)
      n == Entity_new(s0, data)
  IN  [n.s EXCEPT !.indexByType[type] = SetEntity(@, id, n.e)]

\* TypeIndexRecord.insert(key, data), on an existing index
TypeIndexRecord_insert(s, type, id, data) ==
  LET n == Entity_new(s, data)
      s1 == [n.s EXCEPT !.indexByType[type] = SetEntity(@, id, n.e)]
  IN  DirtyableTag_dirty(s1, s1.indexByType[type].allTag)

\* TypeIndexRecord.patchProperties(id, updates) dirtying the entity tag of
\* each entity of the type
TypeIndexRecord_patchProperties_DirtiesEach(s, type, id, updates) ==
  LET p == Entity_patchProperties(s, s.indexByType[type].entities[id], updates)
      s1 == [p.s EXCEPT !.indexByType[type] = SetEntity(@, id, p.e)]
      idx == s1.indexByType[type]
      ts == [i \in 1..Len(idx.order) |-> idx.entities[idx.order[i]].entityTag]
  IN  DirtyableTag_dirty(DirtyEach(s1, ts), idx.allTag)

\* TypeIndexRecord.patchProperties(id, updates), for a present id
TypeIndexRecord_patchProperties(s, type, id, updates) ==
  LET p == Entity_patchProperties(s, s.indexByType[type].entities[id], updates)
      s1 == [p.s EXCEPT !.indexByType[type] = SetEntity(@, id, p.e)]
  IN  DirtyableTag_dirty(s1, s1.indexByType[type].allTag)

\* TypeIndexImpl.delete(key), for a present id
TypeIndexImpl_delete(s, type, id) ==
  LET s1 == Entity_dirtyAll(s, s.indexByType[type].entities[id])
      s2 == [s1 EXCEPT !.indexByType[type] = DeleteEntity(@, id)]
  IN  DirtyableTag_dirty(s2, s2.indexByType[type].allTag)

\* Index.insert(key, data)
Index_insert(s, type, id, data) ==
  TypeIndexRecord_insert(Index_indexFor(s, type), type, id, data)

\* TypeIndexImpl.consume(id) forgetting to consume the entity tag
TypeIndexImpl_consume_Forgets(idx, id) == {}

\* the tags TypeIndexImpl.consume(id) hands to the tracking frame
TypeIndexImpl_consume(idx, id) ==
  IF id \in DOMAIN idx.entities THEN {idx.entities[id].entityTag} ELSE {}

\* Index.entityTag(ref) / propertyTag(ref, key), for a present entity
Index_entityTag(s, type, id) == s.indexByType[type].entities[id].entityTag

Index_propertyTag(s, type, id, key) ==
  s.indexByType[type].entities[id].propertyTags[key]

\* database.revision(ref) and database.validate(ref, snapshot)
DatabaseImpl_revision(s, type, id) == Tag_value(s, Index_entityTag(s, type, id))

DatabaseImpl_validate(s, type, id, snapshot) ==
  Tag_validate(s, Index_entityTag(s, type, id), snapshot)

\* ------------------------------------------------- reads inside a computation
\* The result of running code under compute(): whether it returned, its
\* value, the tags it consumed, the entities it was handed (each named by
\* its entity tag and by the properties object returned) and the store.
Raised(s) == [ok |-> FALSE, value |-> Null, consumed |-> {}, reads |-> {}, s |-> s]

Returned(s, value, consumed, reads) ==
  [ok |-> TRUE, value |-> value, consumed |-> consumed, reads |-> reads, s |-> s]

\* ------------------------------------------------------ dependency tracker
\* push an empty consumed-set frame
Tracker_push(fr) == Append(fr, {})

\* consume(): register the tags into the innermost active frame, if any
Tracker_consume(fr, consumed) ==
  IF fr = <<>> THEN fr ELSE [fr EXCEPT ![Len(fr)] = @ \cup consumed]

\* pop the innermost frame without handing its consumed set to the parent
Tracker_pop_NoReregister(fr) == SubSeq(fr, 1, Len(fr) - 1)

\* pop the innermost frame and register its consumed set into the parent
\* frame, if there is one
Tracker_pop(fr) == Tracker_consume(SubSeq(fr, 1, Len(fr) - 1), fr[Len(fr)])

\* track(thunk) leaving its frame on the stack when the thunk raises
Tracker_track_LeaksOnRaise(fr, r) ==
  LET f == Tracker_consume(Tracker_push(fr), r.consumed)
  IN  [ok |-> r.ok, consumed |-> f[Len(f)],
       frames |-> IF r.ok THEN Tracker_pop(f) ELSE f]

\* track(thunk), r being the outcome of the thunk: push a frame, run the
\* thunk, whose reads consume into the frame, pop the frame whether the
\* thunk returned or raised, and yield the consumed set; the error of a
\* thunk that raised is raised again
Tracker_track(fr, r) ==
  LET f == Tracker_consume(Tracker_push(fr), r.consumed)
  IN  [ok |-> r.ok, consumed |-> f[Len(f)], frames |-> Tracker_pop(f)]

\* TypeIndexImpl.get(key): getProperties dereferences entities[id], so an
\* absent id raises; a present one consumes the entity tag
TypeIndexImpl_get(s, type, id) ==
  LET idx == s.indexByType[type]
  IN  IF id \notin DOMAIN idx.entities THEN Raised(s)
      ELSE LET e == idx.entities[id]
           IN  Returned(s, Entity_getProperties(s, e),
                        TypeIndexImpl_consume(idx, id),
                        {[entity |-> e.entityTag, object |-> e.properties]})

\* DatabaseImpl.checkout(ref) -> Index.get(ref): raises when the type has no
\* index yet
DatabaseImpl_checkout(s, type, id) ==
  IF ~s.indexByType[type].exists THEN Raised(s)
  ELSE TypeIndexImpl_get(s, type, id)

\* Index.get(key): raises when the type has no index yet
Index_get(s, type, id) ==
  IF ~s.indexByType[type].exists THEN Raised(s)
  ELSE TypeIndexImpl_get(s, type, id)

\* Index.patch(key, updates) passing over an absent entity (entities[id]?.)
\* and then dirtying allTag
Index_patch_SkipsAbsent(s, type, id, updates) ==
  IF ~s.indexByType[type].exists THEN Raised(s)
  ELSE IF id \notin DOMAIN s.indexByType[type].entities
       THEN Returned(DirtyableTag_dirty(s, s.indexByType[type].allTag), Null, {}, {})
  ELSE Returned(TypeIndexRecord_patchProperties(s, type, id, updates), Null, {}, {})

\* Index.patch(key, updates): raises when the type has no index yet;
\* TypeIndexRecord.patchProperties dereferences entities[id], so an absent
\* id raises before anything is dirtied
Index_patch(s, type, id, updates) ==
  IF ~s.indexByType[type].exists THEN Raised(s)
  ELSE IF id \notin DOMAIN s.indexByType[type].entities THEN Raised(s)
  ELSE Returned(TypeIndexRecord_patchProperties(s, type, id, updates), Null, {}, {})

\* Index.delete(key) passing over an absent entity (entities[id]?.) and then
\* dirtying allTag
Index_delete_SkipsAbsent(s, type, id) ==
  IF ~s.indexByType[type].exists THEN Raised(s)
  ELSE IF id \notin DOMAIN s.indexByType[type].entities
       THEN Returned(DirtyableTag_dirty(s, s.indexByType[type].allTag), Null, {}, {})
  ELSE Returned(TypeIndexImpl_delete(s, type, id), Null, {}, {})

\* Index.delete(key) dirtying allTag before it dereferences entities[id]
Index_delete_DirtiesFirst(s, type, id) ==
  IF ~s.indexByType[type].exists THEN Raised(s)
  ELSE IF id \notin DOMAIN s.indexByType[type].entities
       THEN Raised(DirtyableTag_dirty(s, s.indexByType[type].allTag))
  ELSE Returned(TypeIndexImpl_delete(s, type, id), Null, {}, {})

\* Index.delete(key): raises when the type has no index yet;
\* TypeIndexImpl.delete dereferences entities[id], so an absent id raises
\* before anything is dirtied or removed
Index_delete(s, type, id) ==
  IF ~s.indexByType[type].exists THEN Raised(s)
  ELSE IF id \notin DOMAIN s.indexByType[type].entities THEN Raised(s)
  ELSE Returned(TypeIndexImpl_delete(s, type, id), Null, {}, {})

\* TypeIndexImpl.all() dirtying the collection tag it should consume
DatabaseImpl_all_Dirties(s, type) ==
  LET s1 == Index_indexFor(s, type)
      idx == s1.indexByType[type]
  IN  Returned(DirtyableTag_dirty(s1, idx.allTag), idx.order, {idx.allTag}, {})

\* TypeIndexImpl.all() without consume(this.record.allTag)
DatabaseImpl_all_NoConsume(s, type) ==
  LET s1 == Index_indexFor(s, type)
  IN  Returned(s1, s1.indexByType[type].order, {}, {})

\* TypeIndexImpl.all() through Index.all(type), which creates the index
DatabaseImpl_all(s, type) ==
  LET s1 == Index_indexFor(s, type)
      idx == s1.indexByType[type]
  IN  Returned(s1, idx.order, {idx.allTag}, {})

\* derived function length of person (tests): person.name.length
Derived_length(s, person) == Returned(s, Len(person.name), {}, {})

\* derived function byline of article (tests)
Derived_byline(s, article) ==
  IF article.author = Null THEN Returned(s, Null, {}, {})
  ELSE LET a == DatabaseImpl_checkout(s, "person", article.author)
       IN  IF ~a.ok THEN Raised(s)
           ELSE Returned(s, a.value.name \o " (" \o a.value.association \o ")",
                         a.consumed, a.reads)

\* the thunk of DatabaseImpl.query(ref, "length") for a person:
\*   derived(this.checkout(id), this)
LengthThunk(s, id) ==
  LET c == DatabaseImpl_checkout(s, "person", id)
  IN  IF ~c.ok THEN Raised(s)
      ELSE LET d == Derived_length(s, c.value)
           IN  Returned(s, d.value, c.consumed \cup d.consumed, c.reads \cup d.reads)

\* a derived function of article that evaluates another computation:
\*   (article, db) => db.query(article.author, "length").value()
\* The inner value() runs under its own frame on top of the frame of the
\* function that calls it; what the function has consumed when it returns
\* is what that frame then holds.
Derived_authorLength(s, article) ==
  IF article.author = Null THEN Returned(s, 0, {}, {})
  ELSE LET inner == LengthThunk(s, article.author)
           t == Tracker_track(<<{}>>, inner)
       IN  IF ~t.ok THEN Raised(s)
           ELSE Returned(s, inner.value, t.frames[1], inner.reads)

\* the derived functions that evaluate another computation
NestedNames(type) == IF type = "article" THEN {"authorLength"} ELSE {}

\* the thunk of DatabaseImpl.query(ref, name):
\*   derived(this.checkout(id), this)
\* where derived is undefined, and calling it raises, for a name the
\* registration does not have
QueryThunk(s, name, type, id) ==
  LET c == DatabaseImpl_checkout(s, type, id)
  IN  IF ~c.ok THEN Raised(s)
      ELSE LET d == IF name \in NestedNames(type) THEN Derived_authorLength(s, c.value)
                    ELSE IF name \notin DerivedNames(type) THEN Raised(s)
                    ELSE IF name = "length" THEN Derived_length(s, c.value)
                    ELSE Derived_byline(s, c.value)
           IN  IF ~d.ok THEN Raised(s)
               ELSE Returned(s, d.value, c.consumed \cup d.consumed,
                             c.reads \cup d.reads)

\* query articles (tests), the thunk of DatabaseImpl.dbQuery("articles", personKey):
\*   db.all("article").filter(a => db.checkout(a).author === personKey)
Query_articles(s, personKey) ==
  LET all == DatabaseImpl_all(s, "article")
      outs == [i \in 1..Len(all.value) |->
                 DatabaseImpl_checkout(all.s, "article", all.value[i])]
      n == Len(all.value)
  IN  IF \E i \in 1..n : ~outs[i].ok THEN Raised(all.s)
      ELSE Returned(all.s,
                    SelectSeq(all.value,
                              LAMBDA a : outs[IndexOf(all.value, a)].value.author = personKey),
                    all.consumed \cup UNION {outs[i].consumed : i \in 1..n},
                    UNION {outs[i].reads : i \in 1..n})

\* the thunk of the reference c
Thunk(s, c) ==
  IF c.name = "articles" THEN Query_articles(s, c.id)
  ELSE IF c.name = UnknownName THEN Raised(s)
  ELSE QueryThunk(s, c.name, c.type, c.id)

\* reference.value() adding the consumed tags to the children the tag has
Reference_valueTracked_KeepsChildren(fr, s, c) ==
  LET r == Thunk(s, c)
      t == Tracker_track(fr, r)
  IN  [s |-> r.s,
       frames |-> t.frames,
       c |-> IF t.ok
             THEN [c EXCEPT !.state = "value", !.value = r.value,
                            !.children = @ \cup t.consumed, !.reads = r.reads,
                            !.stamp = ComputedTag_value(r.s, c.children \cup t.consumed)]
             ELSE [c EXCEPT !.state = "raised"]]

\* reference.value() with the frames fr on the tracker's stack: run the
\* thunk under track, then update the tag with the consumed tags.  A thunk
\* that raises leaves the tag as it was.
Reference_valueTracked(fr, s, c) ==
  LET r == Thunk(s, c)
      t == Tracker_track(fr, r)
  IN  [s |-> r.s,
       frames |-> t.frames,
       c |-> IF t.ok
             THEN [c EXCEPT !.state = "value", !.value = r.value,
                            !.children = t.consumed, !.reads = r.reads,
                            !.stamp = ComputedTag_value(r.s, t.consumed)]
             ELSE [c EXCEPT !.state = "raised"]]

\* reference.value() called outside any evaluation
Reference_value(s, c) == Reference_valueTracked(<<>>, s, c)

\* compute(thunk): a reference that has not been evaluated
Compute(name, type, id) ==
  [name |-> name, type |-> type, id |-> id, state |-> "new", value |-> Null,
   children |-> {}, reads |-> {}, stamp |-> 0]

\* ----------------------------------------------------------------- actions
\* the n-th store mutation: its name and arguments
Op(op, type, id, data) ==
  [n |-> last.n + 1, op |-> op, type |-> type, id |-> id, data |-> data,
   raised |-> FALSE]

SetStore(s) ==
  /\ revision' = s.revision
  /\ tags' = s.tags
  /\ objs' = s.objs
  /\ indexByType' = s.indexByType

\* uuid(): an id that is not in use
FreshId == LET i == CHOOSE i \in 1..MaxId :
                      /\ "id" \o ToString(i) \notin issued
                      /\ \A j \in 1..(i - 1) : "id" \o ToString(j) \in issued
           IN  "id" \o ToString(i)

\* Index.idFor(type, entity): the type name for a singleton type, a new uuid
\* otherwise
Index_idFor(type) ==
  IF registrations[type] = "Singleton" THEN type ELSE FreshId

\* the store after the registrations of the tests: person and article are
\* UUID-keyed
Init ==
  /\ registrations = [t \in Types |-> "UUID"]
  /\ revision = 0
  /\ tags = <<>>
  /\ objs = <<>>
  /\ indexByType = [t \in Types |-> NoIndex]
  /\ issued = {}
  /\ comp = Compute("none", "person", Null)
  /\ frames = <<>>
  /\ last = [n |-> 0, op |-> "init", type |-> "person", id |-> Null, data |-> EmptyDict,
             raised |-> FALSE]

\* DatabaseImpl.insert(type, entity)
Insert(type, data) ==
  /\ revision < MaxRevision
  /\ registrations[type] = "UUID" => issued # Ids
  /\ SetStore(Index_insert(Store, type, Index_idFor(type), data))
  /\ issued' = issued \cup {Index_idFor(type)}
  /\ last' = Op("insert", type, Index_idFor(type), data)
  /\ UNCHANGED <<registrations, comp, frames>>

\* DatabaseImpl.insert(ref, entity), with a reference the caller supplies:
\* one whose id is in use, present or deleted
InsertRef(type, id, data) ==
  /\ revision < MaxRevision
  /\ id \in issued
  /\ SetStore(Index_insert(Store, type, id, data))
  /\ issued' = issued \cup {id}
  /\ last' = Op("insertRef", type, id, data)
  /\ UNCHANGED <<registrations, comp, frames>>

\* DatabaseImpl.patch(ref, updates); raises when the type has no index or
\* the id is absent
Patch(type, id, updates) ==
  /\ revision < MaxRevision
  /\ Has(indexByType[type], id)
  /\ SetStore(TypeIndexRecord_patchProperties(Store, type, id, updates))
  /\ last' = Op("patch", type, id, updates)
  /\ UNCHANGED <<registrations, issued, comp, frames>>

\* DatabaseImpl.delete(ref); raises when the type has no index or the id is
\* absent
Delete(type, id) ==
  /\ revision < MaxRevision
  /\ Has(indexByType[type], id)
  /\ SetStore(TypeIndexImpl_delete(Store, type, id))
  /\ last' = Op("delete", type, id, EmptyDict)
  /\ UNCHANGED <<registrations, issued, comp, frames>>

\* DatabaseImpl.query(ref, name), for a reference in use; the caller holds
\* one computed reference
Query(type, id, name) ==
  /\ comp.name = "none"
  /\ id \in issued
  /\ comp' = Compute(name, type, id)
  /\ UNCHANGED <<registrations, revision, tags, objs, indexByType, issued, last, frames>>

\* DatabaseImpl.dbQuery("articles", personKey)
DbQuery(name, personKey) ==
  /\ comp.name = "none"
  /\ personKey \in issued
  /\ comp' = Compute(name, "person", personKey)
  /\ UNCHANGED <<registrations, revision, tags, objs, indexByType, issued, last, frames>>

\* value() of the reference held
Value ==
  /\ comp.name # "none"
  /\ LET v == Reference_valueTracked(frames, Store, comp)
     IN  /\ SetStore(v.s)
         /\ comp' = v.c
         /\ frames' = v.frames
  /\ UNCHANGED <<registrations, issued, last>>

Next ==
  \/ \E type \in Types : \E data \in Properties(type) : Insert(type, data)
  \/ \E type \in Types : \E id \in Ids : \E data \in Properties(type) :
       InsertRef(type, id, data)
  \/ \E type \in Types : \E id \in Ids : \E updates \in Updates(type) :
       Patch(type, id, updates)
  \/ \E type \in Types : \E id \in Ids : Delete(type, id)
  \/ \E type \in Types : \E id \in Ids : \E name \in DerivedNames(type) :
       Query(type, id, name)
  \/ \E name \in QueryNames : \E personKey \in Ids : DbQuery(name, personKey)
  \/ Value

\* ------------------------------------------- calls with any reference at all
\* a call that raised: it is no mutation of the store
Failed(op, type, id) ==
  [n |-> last.n, op |-> op, type |-> type, id |-> id, data |-> EmptyDict,
   raised |-> TRUE]

\* a get that returned value
Got(type, id, value) ==
  [n |-> last.n, op |-> "get", type |-> type, id |-> id, data |-> value,
   raised |-> FALSE]

\* the id values these calls put in a reference of the type: the first
\* uuid and the type name, which is the id of a singleton
RefIds(type) == {"id1", type}

\* the properties and the updates these calls are made with: one value per
\* type, and updates with a key that no properties of the type have
CallProperties(type) ==
  IF type = "person" THEN {[name |-> "Tom Dale", association |-> InitialAssociation]}
  ELSE {[author |-> Null]}

CallUpdates(type) ==
  IF type = "person" THEN {[name |-> "Thomas Dale"]}
  ELSE {[author |-> "id1"]}

UnknownUpdates(type) ==
  IF type = "person" THEN {[author |-> Null]}
  ELSE {[name |-> "Tom Dale"]}

\* DatabaseImpl.insert(ref, entity), with any reference
CallInsert(type, id, data) ==
  /\ last.n < MaxCalls
  /\ SetStore(Index_insert(Store, type, id, data))
  /\ issued' = issued \cup {id}
  /\ last' = Op("insertRef", type, id, data)
  /\ UNCHANGED <<registrations, comp, frames>>

\* DatabaseImpl.patch(ref, updates), with any reference
CallPatch(type, id, updates) ==
  LET r == Index_patch(Store, type, id, updates)
  IN  /\ r.ok => revision < MaxRevision
      /\ SetStore(r.s)
      /\ last' = IF r.ok THEN Op("patch", type, id, updates)
                 ELSE Failed("patch", type, id)
      /\ UNCHANGED <<registrations, issued, comp, frames>>

\* DatabaseImpl.delete(ref), with any reference
CallDelete(type, id) ==
  LET r == Index_delete(Store, type, id)
  IN  /\ r.ok => revision < MaxRevision
      /\ SetStore(r.s)
      /\ last' = IF r.ok THEN Op("delete", type, id, EmptyDict)
                 ELSE Failed("delete", type, id)
      /\ UNCHANGED <<registrations, issued, comp, frames>>

\* Index.get(ref), with any reference, outside a tracking frame
CallGet(type, id) ==
  LET r == Index_get(Store, type, id)
  IN  /\ SetStore(r.s)
      /\ last' = IF r.ok THEN Got(type, id, r.value) ELSE Failed("get", type, id)
      /\ frames' = Tracker_consume(frames, r.consumed)
      /\ UNCHANGED <<registrations, issued, comp>>

\* the store after the registrations of either test suite: person is
\* UUID-keyed in one and a singleton in the other
CallInit ==
  /\ registrations \in {[t \in Types |-> IF t = "person" THEN k ELSE "UUID"] : k \in KeyTypes}
  /\ revision = 0
  /\ tags = <<>>
  /\ objs = <<>>
  /\ indexByType = [t \in Types |-> NoIndex]
  /\ issued = {}
  /\ comp = Compute("none", "person", Null)
  /\ frames = <<>>
  /\ last = [n |-> 0, op |-> "init", type |-> "person", id |-> Null, data |-> EmptyDict,
             raised |-> FALSE]

CallNext ==
  \/ \E type \in Types : \E data \in CallProperties(type) : Insert(type, data)
  \/ \E type \in Types : \E id \in RefIds(type) : \E data \in CallProperties(type) :
       CallInsert(type, id, data)
  \/ \E type \in Types : \E id \in RefIds(type) :
       \E updates \in CallUpdates(type) \cup UnknownUpdates(type) :
         CallPatch(type, id, updates)
  \/ \E type \in Types : \E id \in RefIds(type) : CallDelete(type, id)
  \/ \E type \in Types : \E id \in RefIds(type) : CallGet(type, id)

CallSpec == CallInit /\ [][CallNext]_vars

\* ------------------------------- every call, from a database just constructed
\* a call that returned and is no mutation of the store
Returns(op, type, id, data) ==
  [n |-> last.n, op |-> op, type |-> type, id |-> id, data |-> data,
   raised |-> FALSE]

\* Index.register(type, registration)
Index_register(regs, type, key) == [regs EXCEPT ![type] = key]

\* DatabaseImpl.register(type, {key})
Register(type, key) ==
  /\ registrations' = Index_register(registrations, type, key)
  /\ last' = Returns("register", type, Null, [key |-> key])
  /\ UNCHANGED <<revision, tags, objs, indexByType, issued, comp, frames>>

\* DatabaseImpl.insert(type, entity), for any type name: Index.idFor raises
\* for a type that has no registration
CallInsertType(type, data) ==
  IF registrations[type] = NoRegistration
  THEN /\ last' = Failed("insert", type, Null)
       /\ UNCHANGED <<registrations, revision, tags, objs, indexByType, issued, comp, frames>>
  ELSE /\ last.n < MaxCalls
       /\ registrations[type] = "UUID" => issued # Ids
       /\ SetStore(Index_insert(Store, type, Index_idFor(type), data))
       /\ issued' = issued \cup {Index_idFor(type)}
       /\ last' = Op("insert", type, Index_idFor(type), data)
       /\ UNCHANGED <<registrations, comp, frames>>

\* DatabaseImpl.all(type), outside a tracking frame
CallAll(type) ==
  /\ SetStore(DatabaseImpl_all(Store, type).s)
  /\ last' = Returns("all", type, Null, EmptyDict)
  /\ UNCHANGED <<registrations, issued, comp, frames>>

\* DatabaseImpl.allTag(type)
CallAllTag(type) ==
  /\ SetStore(Index_indexFor(Store, type))
  /\ last' = Returns("allTag", type, Null, EmptyDict)
  /\ UNCHANGED <<registrations, issued, comp, frames>>

\* DatabaseImpl.query(ref, name), for any reference and name: Index.derived
\* raises for a type that has no registration, and returns
\* registration.derived[name], which may be undefined, otherwise
CallQuery(type, id, name) ==
  IF registrations[type] = NoRegistration
  THEN /\ last' = Failed("query", type, id)
       /\ UNCHANGED <<registrations, revision, tags, objs, indexByType, issued, comp, frames>>
  ELSE /\ comp.name = "none"
       /\ comp' = Compute(name, type, id)
       /\ last' = Returns("query", type, id, EmptyDict)
       /\ UNCHANGED <<registrations, revision, tags, objs, indexByType, issued, frames>>

\* DatabaseImpl.dbQuery(name, personKey), for any name: Index.query returns
\* queries[name], which may be undefined
CallDbQuery(name, personKey) ==
  /\ comp.name = "none"
  /\ comp' = Compute(name, "person", personKey)
  /\ last' = Returns("dbQuery", "person", personKey, EmptyDict)
  /\ UNCHANGED <<registrations, revision, tags, objs, indexByType, issued, frames>>

\* the methods of Branch these calls are made on
BranchOps == {"Branch#checkout", "Branch#patch", "Branch#delete"}

\* new Branch(database).checkout(ref) / patch(ref, updates) / delete(ref):
\* each throws "unimplemented"
BranchCall(op, type, id) ==
  /\ last' = Failed(op, type, id)
  /\ UNCHANGED <<registrations, revision, tags, objs, indexByType, issued, comp, frames>>

\* DatabaseImpl.entityTag(ref) -> Index.entityTag -> TypeIndexImpl.entityTag:
\* raises when the type has no index, and for an absent id, where
\* entities[id] is dereferenced
DatabaseImpl_entityTag(s, type, id) ==
  IF ~s.indexByType[type].exists THEN Raised(s)
  ELSE IF id \notin DOMAIN s.indexByType[type].entities THEN Raised(s)
  ELSE Returned(s, Index_entityTag(s, type, id), {}, {})

\* DatabaseImpl.propertyTag(ref, key), likewise
DatabaseImpl_propertyTag(s, type, id, key) ==
  IF ~s.indexByType[type].exists THEN Raised(s)
  ELSE IF id \notin DOMAIN s.indexByType[type].entities THEN Raised(s)
  ELSE Returned(s, Index_propertyTag(s, type, id, key), {}, {})

\* DatabaseImpl.derivedTag(ref, key): raises when the type has no index or
\* the id is absent, else the tag the entity keeps for the key
DatabaseImpl_derivedTag(s, type, id, key) ==
  IF ~s.indexByType[type].exists THEN Raised(s)
  ELSE IF id \notin DOMAIN s.indexByType[type].entities THEN Raised(s)
  ELSE LET g == Entity_getDerivedTag(s, s.indexByType[type].entities[id], key)
           s1 == [g.s EXCEPT !.indexByType[type] = SetEntity(@, id, g.e)]
       IN  Returned(s1, g.tag, {}, {})

CallDerivedTag(type, id, key) ==
  LET r == DatabaseImpl_derivedTag(Store, type, id, key)
  IN  /\ SetStore(r.s)
      /\ last' = IF r.ok THEN Returns("derivedTag", type, id, [name |-> key, tag |-> r.value])
                 ELSE Failed("derivedTag", type, id)
      /\ UNCHANGED <<registrations, issued, comp, frames>>

\* the snapshots validate is called with
Snapshots == 0..1

CallEntityTag(type, id) ==
  LET r == DatabaseImpl_entityTag(Store, type, id)
  IN  /\ SetStore(r.s)
      /\ last' = IF r.ok THEN Returns("entityTag", type, id, [tag |-> r.value])
                 ELSE Failed("entityTag", type, id)
      /\ UNCHANGED <<registrations, issued, comp, frames>>

CallPropertyTag(type, id, key) ==
  LET r == DatabaseImpl_propertyTag(Store, type, id, key)
  IN  /\ SetStore(r.s)
      /\ last' = IF r.ok THEN Returns("propertyTag", type, id, [tag |-> r.value])
                 ELSE Failed("propertyTag", type, id)
      /\ UNCHANGED <<registrations, issued, comp, frames>>

\* DatabaseImpl.revision(ref): entityTag(ref).value()
CallRevision(type, id) ==
  LET r == DatabaseImpl_entityTag(Store, type, id)
  IN  /\ SetStore(r.s)
      /\ last' = IF r.ok
                 THEN Returns("revision", type, id,
                              [value |-> DatabaseImpl_revision(r.s, type, id)])
                 ELSE Failed("revision", type, id)
      /\ UNCHANGED <<registrations, issued, comp, frames>>

\* DatabaseImpl.validate(ref, snapshot): entityTag(ref).validate(snapshot)
CallValidate(type, id, snapshot) ==
  LET r == DatabaseImpl_entityTag(Store, type, id)
  IN  /\ SetStore(r.s)
      /\ last' = IF r.ok
                 THEN Returns("validate", type, id,
                              [valid |-> DatabaseImpl_validate(r.s, type, id, snapshot)])
                 ELSE Failed("validate", type, id)
      /\ UNCHANGED <<registrations, issued, comp, frames>>

\* new DatabaseImpl(queries): nothing is registered
FullInit ==
  /\ registrations = [t \in Types |-> NoRegistration]
  /\ revision = 0
  /\ tags = <<>>
  /\ objs = <<>>
  /\ indexByType = [t \in Types |-> NoIndex]
  /\ issued = {}
  /\ comp = Compute("none", "person", Null)
  /\ frames = <<>>
  /\ last = [n |-> 0, op |-> "init", type |-> "person", id |-> Null, data |-> EmptyDict,
             raised |-> FALSE]

\* the type these calls name
FullTypes == {"person"}

FullNext ==
  \/ \E type \in FullTypes : \E key \in KeyTypes : Register(type, key)
  \/ \E type \in FullTypes : \E data \in CallProperties(type) : CallInsertType(type, data)
  \/ \E type \in FullTypes : \E id \in RefIds(type) : \E data \in CallProperties(type) :
       CallInsert(type, id, data)
  \/ \E type \in FullTypes : \E id \in RefIds(type) : \E updates \in CallUpdates(type) :
       CallPatch(type, id, updates)
  \/ \E type \in FullTypes : \E id \in RefIds(type) : CallDelete(type, id)
  \/ \E type \in FullTypes : \E id \in RefIds(type) : CallGet(type, id)
  \/ \E type \in FullTypes : CallAll(type)
  \/ \E type \in FullTypes : CallAllTag(type)
  \/ \E type \in FullTypes : \E id \in RefIds(type) :
       \E name \in DerivedNames(type) \cup {UnknownName} : CallQuery(type, id, name)
  \/ \E name \in QueryNames \cup {UnknownName} : \E personKey \in RefIds("person") :
       CallDbQuery(name, personKey)
  \/ Value
  \/ \E op \in BranchOps : \E type \in FullTypes : \E id \in RefIds(type) :
       BranchCall(op, type, id)

FullSpec == FullInit /\ [][FullNext]_vars

\* the reads of the store and the calls that raise, from a database just
\* constructed
ReadNext ==
  \/ \E type \in FullTypes : \E key \in KeyTypes : Register(type, key)
  \/ \E type \in FullTypes : \E data \in CallProperties(type) : CallInsertType(type, data)
  \/ \E type \in FullTypes : \E id \in RefIds(type) : \E updates \in CallUpdates(type) :
       CallPatch(type, id, updates)
  \/ \E type \in FullTypes : \E id \in RefIds(type) : CallDelete(type, id)
  \/ \E type \in FullTypes : \E id \in RefIds(type) : CallGet(type, id)
  \/ \E type \in FullTypes : CallAll(type)
  \/ \E type \in FullTypes : CallAllTag(type)
  \/ \E type \in FullTypes : \E id \in RefIds(type) : CallEntityTag(type, id)
  \/ \E type \in FullTypes : \E id \in RefIds(type) : \E key \in PropertyKeys(type) :
       CallPropertyTag(type, id, key)
  \/ \E type \in FullTypes : \E id \in RefIds(type) : CallRevision(type, id)
  \/ \E type \in FullTypes : \E id \in RefIds(type) : \E snapshot \in Snapshots :
       CallValidate(type, id, snapshot)
  \/ \E type \in FullTypes : \E id \in RefIds(type) :
       \E name \in DerivedNames(type) : CallQuery(type, id, name)
  \/ \E name \in QueryNames : \E personKey \in RefIds("person") :
       CallDbQuery(name, personKey)
  \/ Value

ReadSpec == FullInit /\ [][ReadNext]_vars

\* ------------------------------------------ evaluations and the tracker
\* the properties these runs insert: a person, and an article whose author
\* is the first uuid
TrackProperties(type) ==
  IF type = "person" THEN CallProperties(type) ELSE {[author |-> "id1"]}

\* database.query(ref, name).value(), evaluated at once while another
\* reference is held; the call records the name, the state of the
\* reference held and the tags the evaluation collected
QueryValue(type, id, name) ==
  LET v == Reference_valueTracked(frames, Store, Compute(name, type, id))
  IN  /\ comp.name # "none"
      /\ id \in issued
      /\ SetStore(v.s)
      /\ frames' = v.frames
      /\ last' = IF v.c.state = "raised" THEN Failed("value", type, id)
                 ELSE Returns("value", type, id,
                              [name |-> name, held |-> comp.state,
                               children |-> v.c.children])
      /\ UNCHANGED <<registrations, issued, comp>>

TrackNext ==
  \/ \E type \in Types : \E data \in TrackProperties(type) : Insert(type, data)
  \/ \E type \in Types : \E id \in Ids : \E updates \in CallUpdates(type) :
       Patch(type, id, updates)
  \/ \E type \in Types : \E id \in Ids : Delete(type, id)
  \/ \E type \in Types : \E id \in Ids :
       \E name \in DerivedNames(type) \cup NestedNames(type) : Query(type, id, name)
  \/ Value
  \/ \E type \in Types : \E id \in Ids : CallGet(type, id)
  \/ \E type \in Types : \E id \in Ids :
       \E name \in DerivedNames(type) \cup NestedNames(type) : QueryValue(type, id, name)

TrackSpec == Init /\ [][TrackNext]_vars

\* --------------------------------------- following a reference that changes
\* the id in a reference to a second person, which the caller supplies
OtherId == "id" \o ToString(MaxId + 1)

\* a store with nothing in it
EmptyStore ==
  [revision |-> 0, tags |-> <<>>, objs |-> <<>>,
   indexByType |-> [t \in Types |-> NoIndex]]

\* the store the constructor of the test suite leaves: a person, and an
\* article whose author is that person
FixtureStore ==
  Index_insert(Index_insert(EmptyStore, "person", "id1",
                            [name |-> "Tom Dale", association |-> InitialAssociation]),
               "article", "id2", [author |-> "id1"])

FollowInit ==
  /\ registrations = [t \in Types |-> "UUID"]
  /\ revision = FixtureStore.revision
  /\ tags = FixtureStore.tags
  /\ objs = FixtureStore.objs
  /\ indexByType = FixtureStore.indexByType
  /\ issued = {"id1", "id2"}
  /\ comp = Compute("none", "person", Null)
  /\ frames = <<>>
  /\ last = [n |-> 0, op |-> "init", type |-> "person", id |-> Null, data |-> EmptyDict,
             raised |-> FALSE]

\* the updates of these runs: a new name for a person, another author or
\* none for the article
FollowUpdates(type) ==
  IF type = "person" THEN CallUpdates(type)
  ELSE {[author |-> a] : a \in {"id1", OtherId, Null}}

\* DatabaseImpl.patch(ref, updates) of a present entity, one of MaxCalls
\* mutations
FollowPatch(type, id, updates) ==
  /\ last.n < MaxCalls
  /\ Has(indexByType[type], id)
  /\ SetStore(TypeIndexRecord_patchProperties(Store, type, id, updates))
  /\ last' = Op("patch", type, id, updates)
  /\ UNCHANGED <<registrations, issued, comp, frames>>

FollowNext ==
  \/ \E data \in CallProperties("person") : CallInsert("person", OtherId, data)
  \/ \E type \in Types : \E id \in Ids \cup {OtherId} :
       \E updates \in FollowUpdates(type) : FollowPatch(type, id, updates)
  \/ \E id \in Ids : \E name \in DerivedNames("article") : Query("article", id, name)
  \/ Value

FollowSpec == FollowInit /\ [][FollowNext]_vars

\* ------------------------------------------------------- derived tags
\* DatabaseImpl.delete(ref), one of MaxCalls mutations
DerivedDelete(type, id) ==
  LET r == Index_delete(Store, type, id)
  IN  /\ last.n < MaxCalls
      /\ SetStore(r.s)
      /\ last' = IF r.ok THEN Op("delete", type, id, EmptyDict)
                 ELSE Failed("delete", type, id)
      /\ UNCHANGED <<registrations, issued, comp, frames>>

\* the calls on the person of the fixture: patch, insert again under the
\* same reference, delete, query and its evaluation, derivedTag
DerivedNext ==
  \/ \E updates \in CallUpdates("person") : FollowPatch("person", "id1", updates)
  \/ \E data \in CallProperties("person") : CallInsert("person", "id1", data)
  \/ DerivedDelete("person", "id1")
  \/ \E name \in DerivedNames("person") : Query("person", "id1", name)
  \/ Value
  \/ \E name \in DerivedNames("person") : CallDerivedTag("person", "id1", name)

DerivedSpec == FollowInit /\ [][DerivedNext]_vars

\* ------------------------------------ the index that keeps EntityTags
\* EntityTags.dirty(): every property tag, then the entity tag
EntityTags_dirty(s, e) ==
  LET ks == SelectSeq(KeyOrder, LAMBDA k : k \in DOMAIN e.propertyTags)
      ts == [i \in 1..Len(ks) |-> e.propertyTags[ks[i]]]
  IN  DirtyableTag_dirty(DirtyEach(s, ts), e.entityTag)

\* the loop of TypeIndex.patch over keys(updates): raises at the first key
\* that has no tag, having dirtied the tags of the keys before it
RECURSIVE TypeIndex_patchKeys(_, _, _)
TypeIndex_patchKeys(s, e, ks) ==
  IF ks = <<>> THEN [ok |-> TRUE, s |-> s]
  ELSE IF Head(ks) \notin DOMAIN e.propertyTags THEN [ok |-> FALSE, s |-> s]
  ELSE TypeIndex_patchKeys(DirtyableTag_dirty(s, e.propertyTags[Head(ks)]), e, Tail(ks))

\* TypeIndex.patch(key, updates) of a present entity: stores the merged
\* properties, then dirties the tag of each key of updates, then
\* EntityTags.dirty(), then allTag
TypeIndex_patch(s, type, id, updates) ==
  LET e == s.indexByType[type].entities[id]
      s1 == [s EXCEPT !.objs = Append(@, Merge(s.objs[e.properties], updates))]
      e1 == [e EXCEPT !.properties = Len(s1.objs)]
      s2 == [s1 EXCEPT !.indexByType[type] = SetEntity(@, id, e1)]
      l == TypeIndex_patchKeys(s2, e1, KeysOf(updates))
  IN  IF ~l.ok THEN Raised(l.s)
      ELSE Returned(DirtyableTag_dirty(EntityTags_dirty(l.s, e1),
                                       l.s.indexByType[type].allTag),
                    Null, {}, {})

\* the updates of these runs: a key the entity has, a key it has not, and,
\* for a person, both in that order
TypeIndexUpdates(type) ==
  CallUpdates(type) \cup UnknownUpdates(type)
    \cup (IF type = "person" THEN {[name |-> "Thomas Dale", author |-> Null]} ELSE {})

\* a patch of a present entity through this index, one of MaxCalls
TypeIndexPatch(type, id, updates) ==
  LET r == TypeIndex_patch(Store, type, id, updates)
  IN  /\ Len(objs) < Len(FixtureStore.objs) + MaxCalls
      /\ Has(indexByType[type], id)
      /\ SetStore(r.s)
      /\ last' = IF r.ok THEN Op("patch", type, id, updates)
                 ELSE [Failed("patch", type, id) EXCEPT !.data = updates]
      /\ UNCHANGED <<registrations, issued, comp, frames>>

TypeIndexNext ==
  \/ \E type \in Types : \E id \in Ids : \E updates \in TypeIndexUpdates(type) :
       TypeIndexPatch(type, id, updates)
  \/ \E type \in Types : \E id \in Ids : CallGet(type, id)

TypeIndexSpec == FollowInit /\ [][TypeIndexNext]_vars

Spec == Init /\ [][Next]_vars

\* ---------------------------------------------------- notions for the claims
Present(type, id) == Has(indexByType[type], id)

EntityAt(type, id) == indexByType[type].entities[id]

PropertiesAt(type, id) == objs[EntityAt(type, id).properties]

\* the step is the store mutation op
Step(op) == last'.n # last.n /\ last'.op = op

\* the properties a patch by updates should leave: the old ones, overridden
\* key by key
Patched(old, updates) ==
  [k \in DOMAIN old |-> IF k \in DOMAIN updates THEN updates[k] ELSE old[k]]

ReadEntities == {r.entity : r \in comp.reads}

\* the properties the derived function of the reference reads from its own entity
OwnKeysRead(name) == IF name = "length" THEN {"name"} ELSE {"author"}

\* the derived function name applied to properties
Apply(s, name, properties) ==
  IF name = "length" THEN Derived_length(s, properties)
  ELSE Derived_byline(s, properties)

SameOutcome(a, b) == a.ok = b.ok /\ (a.ok => a.value = b.value)

\* the tag of the reference held validates against the stamp read right
\* after its last evaluation
CompValid == ComputedTag_validate(Store, comp.children, comp.stamp)

\* ------------------------------------------------------------------ claims

Elements(seq) == {seq[i] : i \in 1..Len(seq)}

NoRepeats(seq) == Cardinality(Elements(seq)) = Len(seq)

\* the evaluation was handed the entity now at (type, id) with the
\* properties it has now: that entity is untouched since the evaluation
Untouched(type, id) ==
  /\ Present(type, id)
  /\ [entity |-> EntityAt(type, id).entityTag,
      object |-> EntityAt(type, id).properties] \in comp.reads

\* the step changes the value of the tag of the reference held
TagValueChanges ==
  ComputedTag_value(Store', comp.children) # ComputedTag_value(Store, comp.children)

\* C2: byline of article A was evaluated and checked out A's author B.  With
\* A untouched since, a patch of B changes the value of the tag of A's
\* byline, so the stamp read before the patch no longer validates, and the
\* next value() is made of B's patched name and association.
C2_PatchOfReadEntityInvalidates ==
  [][(/\ Step("patch") /\ last'.type = "person"
      /\ comp.name = "byline" /\ comp.state = "value"
      /\ Untouched(comp.type, comp.id)
      /\ PropertiesAt(comp.type, comp.id).author = last'.id
      /\ EntityAt("person", last'.id).entityTag \in ReadEntities)
     => /\ TagValueChanges
        /\ ~CompValid'
        /\ LET b == Patched(PropertiesAt("person", last'.id), last'.data)
               r == Thunk(Store', comp)
           IN  r.ok /\ r.value = b.name \o " (" \o b.association \o ")"]_vars

\* C2 happens: the author read by an evaluated byline was patched, the
\* article was not, and the byline held is out of date and no longer validates
C2_Witness ==
  /\ last.op = "patch" /\ last.type = "person"
  /\ comp.name = "byline" /\ comp.state = "value"
  /\ Untouched(comp.type, comp.id)
  /\ PropertiesAt(comp.type, comp.id).author = last.id
  /\ Present("person", last.id)
  /\ EntityAt("person", last.id).entityTag \in ReadEntities
  /\ comp.value # PropertiesAt("person", last.id).name \o " ("
                    \o PropertiesAt("person", last.id).association \o ")"
  /\ ~CompValid

\* the articles present after the step whose author is personKey
ArticlesBy(personKey) ==
  {i \in Ids : /\ Has(indexByType["article"], i)
               /\ PropertiesAt("article", i).author = personKey}

\* C3: the query articles, which enumerates all("article"), has been
\* evaluated.  Every insert of an article and every delete of one changes
\* the value of its tag, so the stamp read before no longer validates, and
\* the next value() lists the articles of the new membership.
C3_MembershipInvalidatesQuery ==
  [][(/\ (Step("insert") \/ Step("insertRef") \/ Step("delete"))
      /\ last'.type = "article"
      /\ comp.name = "articles" /\ comp.state = "value")
     => /\ TagValueChanges
        /\ ~CompValid'
        /\ LET r == Thunk(Store', comp)
           IN  r.ok /\ NoRepeats(r.value) /\ Elements(r.value) = ArticlesBy(comp.id)']_vars

\* C3 happens: after the query was evaluated an article of its person was
\* inserted, which the value held does not list
C3_Witness ==
  /\ last.op \in {"insert", "insertRef"} /\ last.type = "article"
  /\ comp.name = "articles" /\ comp.state = "value"
  /\ last.data.author = comp.id
  /\ last.id \notin Elements(comp.value)
  /\ last.id \in ArticlesBy(comp.id)
  /\ ~CompValid

\* C4: the query articles has been evaluated and checked out the article now
\* at ref.  A patch of ref changes the value of the query's tag, so the
\* stamp read before no longer validates, and the next value() is computed
\* from the patched properties.
C4_PatchOfMemberInvalidatesQuery ==
  [][(/\ Step("patch") /\ last'.type = "article"
      /\ comp.name = "articles" /\ comp.state = "value"
      /\ EntityAt("article", last'.id).entityTag \in ReadEntities)
     => /\ TagValueChanges
        /\ ~CompValid'
        /\ LET r == Thunk(Store', comp)
               after(i) == IF i = last'.id
                           THEN Patched(PropertiesAt("article", i), last'.data)
                           ELSE PropertiesAt("article", i)
           IN  /\ r.ok /\ NoRepeats(r.value)
               /\ Elements(r.value) =
                    {i \in DOMAIN indexByType["article"].entities :
                       after(i).author = comp.id}]_vars

\* C4 happens: an article the evaluated query listed was patched to another
\* author, so the list held is out of date and its tag no longer validates
C4_Witness ==
  /\ last.op = "patch" /\ last.type = "article"
  /\ comp.name = "articles" /\ comp.state = "value"
  /\ last.id \in Elements(comp.value)
  /\ Present("article", last.id)
  /\ EntityAt("article", last.id).entityTag \in ReadEntities
  /\ PropertiesAt("article", last.id).author # comp.id
  /\ ~CompValid

\* C5: invalidation is sound.  Whenever the tag of an evaluated reference
\* still validates against the stamp read right after its last evaluation,
\* whatever inserts, patches and deletes came in between, evaluating it again
\* returns the value that evaluation returned.
C5_ValidMeansUnchanged ==
  (comp.state = "value" /\ CompValid)
    => LET r == Thunk(Store, comp) IN r.ok /\ r.value = comp.value

\* the step is a store mutation aimed at (type, id)
Touches(type, id) == last'.n # last.n /\ last'.type = type /\ last'.id = id

\* C6: a properties object, once made, never changes: no patch, insert or
\* delete changes a field of an object a checkout has returned.  A checkout
\* after a patch returns the properties from before it, overridden by the
\* patched keys.
C6_CheckoutIsSnapshot ==
  [][/\ \A o \in 1..Len(objs) : Len(objs') >= o /\ objs'[o] = objs[o]
     /\ Step("patch") =>
          LET r == DatabaseImpl_checkout(Store', last'.type, last'.id)
          IN  /\ r.ok
              /\ r.value = Patched(PropertiesAt(last'.type, last'.id), last'.data)]_vars

\* C6 happens: the object an evaluation checked out still has the name it
\* had, while the entity, patched since, is checked out with the patched name
C6_Witness ==
  /\ last.op = "patch" /\ last.type = "person" /\ "name" \in DOMAIN last.data
  /\ comp.name = "length" /\ comp.state = "value"
  /\ Present("person", last.id)
  /\ \E r \in comp.reads :
       /\ r.entity = EntityAt("person", last.id).entityTag
       /\ r.object # EntityAt("person", last.id).properties
       /\ Len(objs[r.object].name) = comp.value
       /\ objs[r.object].name # last.data.name
  /\ DatabaseImpl_checkout(Store, "person", last.id).value.name = last.data.name

\* C7: for a present entity, a step that is no mutation of it leaves it
\* present and validate(ref, revision(ref)) true for the revision read before
\* the step; a patch of it makes validate(ref, r) false for every revision r
\* that can have been read before; and revision and validate are the value
\* and the validation of the entity tag of ref.
C7_RevisionAndValidate ==
  [][\A type \in Types : \A id \in Ids :
       Present(type, id) =>
         /\ DatabaseImpl_validate(Store, type, id, DatabaseImpl_revision(Store, type, id))
         /\ DatabaseImpl_revision(Store, type, id) <= revision
         /\ DatabaseImpl_revision(Store, type, id) = Tag_value(Store, EntityAt(type, id).entityTag)
         /\ \A r \in 0..revision :
              DatabaseImpl_validate(Store, type, id, r)
                = Tag_validate(Store, EntityAt(type, id).entityTag, r)
         /\ ~Touches(type, id) =>
              /\ Present(type, id)'
              /\ DatabaseImpl_validate(Store', type, id,
                                       DatabaseImpl_revision(Store, type, id))
         /\ (Step("patch") /\ Touches(type, id)) =>
              /\ Present(type, id)'
              /\ \A r \in 0..revision : ~DatabaseImpl_validate(Store', type, id, r)]_vars

\* C7 happens: the revision of a person was read by length's tag, the person
\* was patched, and that revision no longer validates
C7_Witness ==
  /\ last.op = "patch" /\ last.type = "person"
  /\ comp.name = "length" /\ comp.state = "value" /\ comp.id = last.id
  /\ Present("person", last.id)
  /\ comp.children = {EntityAt("person", last.id).entityTag}
  /\ ~DatabaseImpl_validate(Store, "person", last.id, comp.stamp)
  /\ DatabaseImpl_validate(Store, "person", last.id,
                           DatabaseImpl_revision(Store, "person", last.id))

\* the tags of an entity: its entity tag and its property tags
TagsOf(e) == {e.entityTag} \cup {e.propertyTags[k] : k \in DOMAIN e.propertyTags}

\* the tags the step's operation dirties, for an operation on a type whose
\* index exists: patch dirties the tags of the patched keys, the entity tag
\* and the collection tag; delete the entity's tags and the collection tag;
\* insert the collection tag
DirtiedByStep ==
  LET idx == indexByType[last'.type]
  IN  IF last'.n = last.n \/ ~idx.exists THEN {}
      ELSE {idx.allTag} \cup
           (CASE last'.op = "patch" ->
                   LET e == idx.entities[last'.id]
                   IN  {e.entityTag} \cup
                       {e.propertyTags[k] : k \in DOMAIN last'.data \cap DOMAIN e.propertyTags}
              [] last'.op = "delete" -> TagsOf(idx.entities[last'.id])
              [] OTHER -> {})

\* C8: over any step of the store the value of every tag (entity tags,
\* property tags and collection tags alike) stays or grows, and every tag
\* the step's operation dirties ends strictly above its previous value.
C8_TagValuesMonotonic ==
  [][/\ Len(tags') >= Len(tags)
     /\ \A t \in 1..Len(tags) : Tag_value(Store', t) >= Tag_value(Store, t)
     /\ \A t \in DirtiedByStep : Tag_value(Store', t) > Tag_value(Store, t)]_vars

\* C8 happens: a person was patched twice, so its entity tag, stamped when
\* made and dirtied by each patch, stands above the stamp its sibling tag
\* for the unpatched property kept
C8_Witness ==
  /\ last.op = "patch" /\ last.type = "person" /\ DOMAIN last.data = {"name"}
  /\ Present("person", last.id)
  /\ LET e == EntityAt("person", last.id)
     IN  /\ Tag_value(Store, e.entityTag) = revision - 1
         /\ Tag_value(Store, e.propertyTags["name"]) = revision - 2
         /\ Tag_value(Store, e.propertyTags["association"]) < revision - 2
         /\ Tag_value(Store, indexByType["person"].allTag) = revision

\* C9: a patch of an entity leaves it with the tags it had, leaves the stamp
\* of the tag of every property that is not among the patched keys as it was,
\* and strictly increases the stamp of the entity tag and of the tag of each
\* patched property.
C9_PatchDirtiesOnlyPatchedKeys ==
  [][Step("patch") =>
       LET e == EntityAt(last'.type, last'.id)
           f == indexByType'[last'.type].entities[last'.id]
       IN  /\ f.entityTag = e.entityTag /\ f.propertyTags = e.propertyTags
           /\ \A b \in DOMAIN e.propertyTags \ DOMAIN last'.data :
                Tag_value(Store', e.propertyTags[b]) = Tag_value(Store, e.propertyTags[b])
           /\ \A a \in DOMAIN e.propertyTags \cap DOMAIN last'.data :
                Tag_value(Store', e.propertyTags[a]) > Tag_value(Store, e.propertyTags[a])
           /\ Tag_value(Store', e.entityTag) > Tag_value(Store, e.entityTag)]_vars

\* C9 happens: after a patch of the association of a person alone, the tag
\* of association and the entity tag carry the revisions the patch drew and
\* the tag of name still carries the older stamp it had
C9_Witness ==
  /\ last.op = "patch" /\ last.type = "person"
  /\ DOMAIN last.data = {"association"}
  /\ Present("person", last.id)
  /\ LET e == EntityAt("person", last.id)
     IN  /\ Tag_value(Store, e.propertyTags["association"]) = revision - 2
         /\ Tag_value(Store, e.entityTag) = revision - 1
         /\ Tag_value(Store, e.propertyTags["name"]) < revision - 2

\* C10: an insert into or a delete from a type whose collection exists
\* strictly increases the stamp of its allTag, and a patch of an entity of
\* the type leaves the stamp of its allTag unchanged.
C10_AllTagOnlyOnMembership ==
  [][LET idx == indexByType[last'.type]
     IN  /\ ((Step("insert") \/ Step("insertRef") \/ Step("delete")) /\ idx.exists)
              => Tag_value(Store', idx.allTag) > Tag_value(Store, idx.allTag)
         /\ Step("patch")
              => Tag_value(Store', idx.allTag) = Tag_value(Store, idx.allTag)]_vars

\* C11: entities do not share tags.  A patch of entity A leaves every other
\* present entity B the entity it was, with its entity tag and each of its
\* property tags at the stamp it had and its stored properties as they were.
C11_PatchLeavesOtherEntities ==
  [][Step("patch") =>
       \A type \in Types : \A b \in Ids :
         (Present(type, b) /\ <<type, b>> # <<last'.type, last'.id>>) =>
           /\ Present(type, b)'
           /\ indexByType'[type].entities[b] = EntityAt(type, b)
           /\ \A t \in TagsOf(EntityAt(type, b)) :
                Tag_value(Store', t) = Tag_value(Store, t)
           /\ objs'[EntityAt(type, b).properties] = PropertiesAt(type, b)
           /\ TagsOf(EntityAt(type, b)) \cap TagsOf(EntityAt(last'.type, last'.id)) = {}]_vars

\* C11 happens: of two persons present, one has just been patched and
\* carries the revisions the patch drew, the other still has the stamps it
\* was made with and the name it was inserted with
C11_Witness ==
  /\ last.op = "patch" /\ last.type = "person" /\ "name" \in DOMAIN last.data
  /\ Present("person", last.id)
  /\ \E b \in Ids \ {last.id} :
       /\ Present("person", b)
       /\ Tag_value(Store, EntityAt("person", b).entityTag)
            < Tag_value(Store, EntityAt("person", last.id).entityTag)
       /\ Tag_value(Store, EntityAt("person", b).propertyTags["name"])
            < Tag_value(Store, EntityAt("person", last.id).propertyTags["name"])
       /\ PropertiesAt("person", b).name # PropertiesAt("person", last.id).name

\* within each collection the ids are unique: all(type) lists each present
\* id once and nothing else
UniqueIds ==
  \A type \in Types :
    indexByType[type].exists =>
      /\ NoRepeats(indexByType[type].order)
      /\ Elements(indexByType[type].order) = DOMAIN indexByType[type].entities

\* C12: an insert(type, props) on a UUID-keyed type returns a reference
\* whose id no earlier insert returned, under which the entity is then
\* present; and in every state each collection holds each of its ids once.
C12_IdsAreUnique ==
  [][/\ UniqueIds /\ UniqueIds'
     /\ (Step("insert") /\ registrations[last'.type] = "UUID") =>
          /\ last'.id \notin issued
          /\ ~Present(last'.type, last'.id)
          /\ Has(indexByType'[last'.type], last'.id)
          /\ objs'[indexByType'[last'.type].entities[last'.id].properties] = last'.data]_vars

\* C12 happens: a second insert by type name has returned the second id, and
\* both persons inserted are present, listed once each
C12_Witness ==
  /\ last.op = "insert" /\ last.type = "person"
  /\ Len(indexByType["person"].order) = 2
  /\ \E a \in Ids \ {last.id} : Present("person", a) /\ Present("person", last.id)
  /\ UniqueIds

\* the step is a call of op, whether it returned or raised
Call(op) == last' # last /\ last'.op = op

\* C13: a collection-level get on a reference to an existing collection
\* returns without raising: for an id that is not present it returns the
\* empty result, for a present id it returns the entity's properties and
\* consumes its entity tag.
C13_GetReturnsOption ==
  [][(Call("get") /\ indexByType[last'.type].exists) =>
       /\ ~last'.raised
       /\ Present(last'.type, last'.id) =>
            /\ last'.data = PropertiesAt(last'.type, last'.id)
            /\ Index_get(Store, last'.type, last'.id).consumed
                 = {EntityAt(last'.type, last'.id).entityTag}]_vars

\* C14: an insert through a reference whose id is present in the type's
\* collection fails, and leaves the entity at that id the entity it was,
\* with the properties and the tag stamps it had.
C14_DuplicateInsertFails ==
  [][(Call("insertRef") /\ Present(last'.type, last'.id)) =>
       /\ last'.raised
       /\ indexByType'[last'.type].entities = indexByType[last'.type].entities
       /\ objs'[EntityAt(last'.type, last'.id).properties]
            = PropertiesAt(last'.type, last'.id)
       /\ \A t \in TagsOf(EntityAt(last'.type, last'.id)) :
            Tag_value(Store', t) = Tag_value(Store, t)]_vars

\* the step leaves the store as it is: every tag stamp, every properties
\* object and every collection
StoreUnchanged == UNCHANGED <<revision, tags, objs, indexByType>>

\* (type, id) was inserted and then deleted: the store has been mutated
\* twice, the collection of the type exists, which an insert into it made,
\* and is empty, which the delete of that one entity made, and id is the
\* one id in use
InsertedAndDeleted(type, id) ==
  /\ last.n = 2
  /\ indexByType[type].exists /\ indexByType[type].order = <<>>
  /\ issued = {id}

\* C15: a patch on a reference that is absent, because it was never
\* inserted or because it has been deleted, raises and updates nothing: the
\* id stays absent and no tag stamp changes, the collection's allTag
\* included.
C15_PatchOfAbsentRaises ==
  [][(Call("patch") /\ ~Present(last'.type, last'.id)) =>
       /\ last'.raised
       /\ StoreUnchanged
       /\ ~Has(indexByType'[last'.type], last'.id)
       /\ indexByType[last'.type].exists =>
            Tag_value(Store', indexByType[last'.type].allTag)
              = Tag_value(Store, indexByType[last'.type].allTag)]_vars

\* C15 happens: a patch of a reference that was inserted and deleted has
\* raised, in a collection that exists
C15_Witness ==
  /\ last.op = "patch" /\ last.raised
  /\ InsertedAndDeleted(last.type, last.id)

\* C16: a delete on a reference that is absent, because it was never
\* inserted or because it has been deleted already, raises and changes no
\* tag stamp and no collection's membership.
C16_DeleteOfAbsentRaises ==
  [][(Call("delete") /\ ~Present(last'.type, last'.id)) =>
       /\ last'.raised
       /\ StoreUnchanged
       /\ \A type \in Types :
            indexByType[type].exists =>
              /\ indexByType'[type].order = indexByType[type].order
              /\ Tag_value(Store', indexByType[type].allTag)
                   = Tag_value(Store, indexByType[type].allTag)]_vars

\* C16 happens: a second delete of a reference that was inserted and
\* deleted has raised
C16_Witness ==
  /\ last.op = "delete" /\ last.raised
  /\ InsertedAndDeleted(last.type, last.id)

\* C17: a patch whose updates have a key that was not among the properties
\* given at insert fails, so a patch that returns has only keys the entity
\* has a property tag for, and the keys of the properties of every present
\* entity stay the keys of its property tags, which are those given at
\* insert.
C17_UnknownKeyPatchFails ==
  [][/\ Step("patch") =>
          DOMAIN last'.data \subseteq DOMAIN EntityAt(last'.type, last'.id).propertyTags
     /\ \A type \in Types :
          indexByType'[type].exists =>
            \A id \in DOMAIN indexByType'[type].entities :
              DOMAIN objs'[indexByType'[type].entities[id].properties]
                = DOMAIN indexByType'[type].entities[id].propertyTags]_vars

\* C18: a delete of a present entity strictly increases the stamp of its
\* entity tag, of each of its property tags and of the collection's allTag,
\* so that no stamp that can have been read from them before the delete
\* validates afterwards; and after it the entity is absent: all(type) does
\* not list it and a checkout of it raises.
C18_DeleteDirtiesAndRemoves ==
  [][Step("delete") =>
       LET e == EntityAt(last'.type, last'.id)
           ts == TagsOf(e) \cup {indexByType[last'.type].allTag}
       IN  /\ Present(last'.type, last'.id)
           /\ \A t \in ts :
                /\ Tag_value(Store', t) > Tag_value(Store, t)
                /\ \A r \in 0..revision : ~Tag_validate(Store', t, r)
           /\ ~Has(indexByType'[last'.type], last'.id)
           /\ last'.id \notin Elements(DatabaseImpl_all(Store', last'.type).value)
           /\ ~DatabaseImpl_checkout(Store', last'.type, last'.id).ok]_vars

\* C18 happens: the person whose length was evaluated has been deleted, the
\* stamp read from the tag of length no longer validates, the person is not
\* listed and evaluating length again raises
C18_Witness ==
  /\ last.op = "delete" /\ last.type = "person"
  /\ comp.name = "length" /\ comp.state = "value" /\ comp.id = last.id
  /\ ~Present("person", last.id)
  /\ ~CompValid
  /\ last.id \notin Elements(indexByType["person"].order)
  /\ ~Thunk(Store, comp).ok

\* C19: for a UUID-keyed type an entity that has been deleted does not
\* become present again: after the delete of (type, id) no step, an insert
\* with a caller-supplied reference included, makes id present in type.
\* Stated for the steps that follow the delete with no other mutation in
\* between.
C19_DeletedStaysAbsent ==
  [][(/\ last.op = "delete" /\ ~last.raised /\ registrations[last.type] = "UUID"
      /\ ~Present(last.type, last.id))
     => ~Has(indexByType'[last.type], last.id)]_vars

\* C20: of a type registered as a singleton at most one entity is present,
\* and its id is the type name, whichever insert overload made it.
C20_SingletonHasOneEntity ==
  \A type \in Types :
    (registrations[type] = "Singleton" /\ indexByType[type].exists) =>
      DOMAIN indexByType[type].entities \subseteq {type}

\* every revision that can be read from a present entity is below the
\* global revision
RevisionsBelowCounter ==
  \A type \in Types :
    indexByType[type].exists =>
      \A id \in DOMAIN indexByType[type].entities :
        DatabaseImpl_revision(Store, type, id) < revision

\* C21: an insert into a singleton type succeeds whether its instance is
\* present, was deleted or never was; after it a checkout of the reference
\* returns the properties just inserted, and validate(ref, r) is false for
\* every revision r read from the reference before, all of which are below
\* the global revision at the insert.
C21_SingletonReinsert ==
  [][/\ RevisionsBelowCounter
     /\ ((Step("insert") \/ Step("insertRef"))
         /\ registrations[last'.type] = "Singleton" /\ last'.id = last'.type)
        => /\ ~last'.raised
           /\ LET c == DatabaseImpl_checkout(Store', last'.type, last'.id)
              IN  c.ok /\ c.value = last'.data
           /\ \A r \in 0..(revision - 1) :
                ~DatabaseImpl_validate(Store', last'.type, last'.id, r)]_vars

\* C21 happens: the singleton was inserted, deleted, which dirtied both its
\* property tags, and inserted again by type name; it is present with the
\* properties of the last insert, and the revision of the first instance
\* does not validate
C21_Witness ==
  /\ last.op = "insert" /\ last.n = 3
  /\ registrations[last.type] = "Singleton" /\ last.id = last.type
  /\ Len(tags) = 7 /\ tags[3] > 0 /\ tags[4] > 0
  /\ Present(last.type, last.id)
  /\ PropertiesAt(last.type, last.id) = last.data
  /\ ~DatabaseImpl_validate(Store, last.type, last.id, tags[2])

\* C22: a register for a type that is already registered raises and leaves
\* the first registration in force.
C22_DuplicateRegistrationFails ==
  [][(Call("register") /\ registrations[last'.type] # NoRegistration)
       => (last'.raised /\ registrations' = registrations)]_vars

\* the operations of the store that name a type
TypeOps == {"insert", "insertRef", "all", "allTag", "patch", "delete", "get", "query"}

\* C23: every store operation that names a type that was never registered
\* raises at the call and creates no collection and no entity of the type.
C23_UnregisteredTypeRaises ==
  [][(last' # last /\ last'.op \in TypeOps
      /\ registrations[last'.type] = NoRegistration)
       => /\ last'.raised
          /\ ~indexByType'[last'.type].exists]_vars

\* C24: query(ref, name) with a name that is not a derived function of the
\* type and dbQuery(name) with a name that is not a query raise at the call:
\* no reference is returned for such a name.
C24_UnknownNameRaisesAtCall ==
  [][(comp.name = "none" /\ comp'.name # "none")
       => comp'.name \in DerivedNames(comp'.type) \cup QueryNames]_vars

\* C28: a checkout through a branch returns the entity as of the branch
\* point, and a patch or a delete through the branch returns without
\* changing what the parent database holds.
C28_BranchIsCopyOnWrite ==
  [][((\E op \in BranchOps : Call(op)) /\ Present(last'.type, last'.id))
       => /\ ~last'.raised
          /\ StoreUnchanged
          /\ last'.op = "Branch#checkout" =>
               last'.data = PropertiesAt(last'.type, last'.id)]_vars

\* the step is a successful delete of (type, id)
Deletes(type, id) == Step("delete") /\ last'.type = type /\ last'.id = id

\* the step is a successful insert of (type, id), by type name or by reference
Inserts(type, id) ==
  (Step("insert") \/ Step("insertRef")) /\ last'.type = type /\ last'.id = id

\* C25: an entity that is present stays present, and the checkout of its
\* reference succeeds, after every operation that is not a delete of that
\* reference: a patch of it, and an insert, patch or delete of another.
C25_PersistentUntilDeleted ==
  [][\A type \in Types : \A id \in Ids :
       (Present(type, id) /\ ~Deletes(type, id))
         => /\ Has(indexByType'[type], id)
            /\ DatabaseImpl_checkout(Store', type, id).ok]_vars

\* C25 happens: after two inserts and the delete of one of the two entities
\* the other one, of the same type, is present and its checkout succeeds
C25_Witness ==
  /\ last.op = "delete" /\ last.n = 3
  /\ ~Present(last.type, last.id)
  /\ \E id \in Ids \ {last.id} :
       /\ Present(last.type, id)
       /\ DatabaseImpl_checkout(Store, last.type, id).ok

\* C26: all(T) returns nothing before the first insert, and after each
\* operation the references it returned before, with the one inserted and
\* without the one deleted, each once; the entity of each is present.
C26_AllListsPresentOnce ==
  [][\A type \in Types :
       LET before == DatabaseImpl_all(Store, type).value
           after == DatabaseImpl_all(Store', type).value
       IN  /\ last.n = 0 => before = <<>>
           /\ NoRepeats(after)
           /\ Elements(after)
                = (Elements(before) \cup {id \in Ids : Inserts(type, id)})
                    \ {id \in Ids : Deletes(type, id)}
           /\ \A id \in Elements(after) : Has(indexByType'[type], id)]_vars

\* C26 happens: two entities of a type were inserted and the first was
\* deleted; all of the type returns the reference of the second only
C26_Witness ==
  /\ last.op = "delete" /\ last.id = "id1"
  /\ issued = {"id1", "id2"}
  /\ DatabaseImpl_all(Store, last.type).value = <<"id2">>

\* C27: every successful insert, patch or delete increases the global
\* revision, and after a patch the entity tag of the patched entity holds a
\* stamp greater than every stamp a tag held before the patch.
C27_MutationsAdvanceRevision ==
  [][(Step("insert") \/ Step("insertRef") \/ Step("patch") \/ Step("delete"))
       => /\ revision' > revision
          /\ Step("patch") =>
               \A i \in 1..Len(tags) :
                 DatabaseImpl_revision(Store', last'.type, last'.id) > tags[i]]_vars

\* C27 happens: an entity was patched after another mutation; its entity
\* tag holds the stamp drawn just before that of the collection tag
C27_Witness ==
  /\ last.op = "patch" /\ last.n >= 2
  /\ Present(last.type, last.id)
  /\ DatabaseImpl_revision(Store, last.type, last.id) = revision - 1

\* the tags the thunk of query(ref, name) consumes by its own reads
OwnReads(name, type, id) == Thunk(Store, Compute(name, type, id)).consumed

\* C29: when the function of a computation raises during value(), the error
\* reaches the caller and the frame is popped: no frame is left on the
\* tracker's stack.  So a read made afterwards, outside any evaluation,
\* registers nothing with the failed computation, and a later evaluation of
\* another computation collects the tags of its own reads only.
C29_RaiseUnwindsFrame ==
  [][/\ frames' = <<>>
     /\ (comp.state # "raised" /\ comp'.state = "raised")
        => comp'.children = comp.children
     /\ (Call("get") /\ comp.state = "raised") => comp' = comp
     /\ (Call("value") /\ ~last'.raised /\ comp.state = "raised")
        => /\ comp' = comp
           /\ last'.data.children
                = OwnReads(last'.data.name, last'.type, last'.id)]_vars

\* C29 happens: the reference held raised in value(), and after it another
\* computation was evaluated and collected tags; no frame is on the stack
C29_Witness ==
  /\ comp.state = "raised"
  /\ last.op = "value" /\ ~last.raised
  /\ last.data.held = "raised"
  /\ last.data.children # {}
  /\ frames = <<>>

\* C30: authorLength of article A evaluates length of A's author B inside
\* it.  Every tag the inner evaluation consumes is a child of the outer
\* computation's tag, and with A untouched since, a patch of B changes the
\* value of that tag: the stamp read before the patch no longer validates.
C30_InnerReadsReachOuter ==
  [][/\ (comp'.name = "authorLength" /\ comp'.state = "value" /\ comp' # comp)
        => LengthThunk(Store, PropertiesAt(comp.type, comp.id).author).consumed
             \subseteq comp'.children
     /\ (/\ Step("patch") /\ last'.type = "person"
         /\ comp.name = "authorLength" /\ comp.state = "value"
         /\ Untouched(comp.type, comp.id)
         /\ PropertiesAt(comp.type, comp.id).author = last'.id
         /\ EntityAt("person", last'.id).entityTag \in ReadEntities)
        => /\ EntityAt("person", last'.id).entityTag \in comp.children
           /\ TagValueChanges
           /\ ~CompValid']_vars

\* C30 happens: the author read by the inner length of an evaluated
\* authorLength was patched, the article was not, and the tag of the
\* authorLength held no longer validates
C30_Witness ==
  /\ last.op = "patch" /\ last.type = "person"
  /\ comp.name = "authorLength" /\ comp.state = "value"
  /\ Untouched(comp.type, comp.id)
  /\ PropertiesAt(comp.type, comp.id).author = last.id
  /\ Present("person", last.id)
  /\ EntityAt("person", last.id).entityTag \in ReadEntities
  /\ ~CompValid

\* the reference held is one of a derived function that has been evaluated
DerivedEvaluated == comp.name \in DerivedNames(comp.type) /\ comp.state = "value"

\* C36: a derived computation was evaluated and checked out entity A only.
\* A patch of another entity B, of the same or of the other type, leaves
\* the value of its tag as it was: a stamp that validated still validates.
C36_PatchOfOtherEntityKeepsValid ==
  [][(/\ Step("patch")
      /\ DerivedEvaluated
      /\ Cardinality(ReadEntities) = 1
      /\ last'.type # comp.type \/ last'.id # comp.id)
     => /\ ~TagValueChanges
        /\ CompValid => CompValid']_vars

\* C36 happens: length of one person was evaluated, another person was
\* patched, and the tag of the length held validates
C36_Witness ==
  /\ last.op = "patch" /\ last.type = "person"
  /\ comp.name = "length" /\ comp.state = "value"
  /\ last.id # comp.id
  /\ Untouched(comp.type, comp.id)
  /\ Cardinality(ReadEntities) = 1
  /\ CompValid

\* C37: a checkout consumes the entity tag of the entity and nothing else,
\* so a patch of any property of an entity that an evaluated derived
\* computation checked out, also one the function never reads, changes the
\* value of the computation's tag: the stamp read before no longer validates.
C37_PatchOfAnyPropertyInvalidates ==
  [][/\ \A type \in Types : \A id \in Ids :
          Present(type, id) =>
            DatabaseImpl_checkout(Store, type, id).consumed
              = {EntityAt(type, id).entityTag}
     /\ (/\ Step("patch")
         /\ DerivedEvaluated
         /\ Present(last'.type, last'.id)
         /\ EntityAt(last'.type, last'.id).entityTag \in ReadEntities)
        => /\ TagValueChanges
           /\ ~CompValid']_vars

\* C37 happens: length, which reads the name, was evaluated, its person was
\* patched with an association only, and the tag no longer validates
C37_Witness ==
  /\ last.op = "patch" /\ comp.name = "length" /\ comp.state = "value"
  /\ last.type = comp.type /\ last.id = comp.id
  /\ DOMAIN last.data = {"association"}
  /\ Present(comp.type, comp.id)
  /\ EntityAt(comp.type, comp.id).entityTag \in ReadEntities
  /\ Len(PropertiesAt(comp.type, comp.id).name) = comp.value
  /\ ~CompValid

\* the entity tags and property tags of the entities in the store
EntityAndPropertyTags ==
  UNION {UNION {TagsOf(indexByType[type].entities[id]) :
                  id \in DOMAIN indexByType[type].entities} :
           type \in {t \in Types : indexByType[t].exists}}

\* the step is a successful mutation of the store
Mutates == Step("insert") \/ Step("insertRef") \/ Step("patch") \/ Step("delete")

\* C39: the stamp of every entity tag, property tag and collection tag is
\* at most the global revision, and after each successful insert, patch or
\* delete on a type the stamp of its collection tag is the global revision
\* and is greater than the stamp of every entity tag and property tag in
\* the store.
C39_AllTagIsNewest ==
  [][/\ \A i \in 1..Len(tags') : tags'[i] <= revision'
     /\ Mutates
        => /\ Tag_value(Store', indexByType'[last'.type].allTag) = revision'
           /\ \A t \in EntityAndPropertyTags' :
                Tag_value(Store', t) < revision']_vars

\* C39 happens: after two inserts an entity was patched; the collection tag
\* of its type holds the global revision and its entity tag the one before
C39_Witness ==
  /\ last.op = "patch" /\ last.n = 3
  /\ Present(last.type, last.id)
  /\ Tag_value(Store, indexByType[last.type].allTag) = revision
  /\ DatabaseImpl_revision(Store, last.type, last.id) = revision - 1
  /\ \A t \in EntityAndPropertyTags : Tag_value(Store, t) < revision

\* C40: the value of the tag of a computation never decreases, across
\* mutations of the store and across re-evaluations, also those that
\* replace its dependency set.
C40_ComputedTagMonotonic ==
  [][(/\ comp.state = "value" /\ comp'.state = "value"
      /\ comp'.name = comp.name /\ comp'.type = comp.type /\ comp'.id = comp.id)
     => ComputedTag_value(Store', comp'.children)
          >= ComputedTag_value(Store, comp.children)]_vars

\* the person the article of the reference held names as its author
AuthorFollowed == PropertiesAt(comp.type, comp.id).author

\* byline is held, evaluated on the article as it is now, whose author is
\* present
BylineCurrent ==
  /\ comp.name = "byline" /\ comp.state = "value"
  /\ Untouched(comp.type, comp.id)
  /\ AuthorFollowed # Null
  /\ Present("person", AuthorFollowed)
  /\ EntityAt("person", AuthorFollowed).entityTag \in ReadEntities

\* C31: each evaluation replaces the children of the computation's tag by
\* the tags it consumed.  So when byline of article A has been evaluated
\* after A was patched to name another author, a later patch of that author
\* changes the value of the tag, and the stamp read after the evaluation no
\* longer validates, while a later patch of any other person, the former
\* author among them, leaves the value and the validity of the tag as they
\* were.
C31_EvaluationReplacesChildren ==
  [][/\ (comp.state = "value" /\ comp'.state = "value" /\ comp' # comp
         /\ comp'.name = comp.name /\ StoreUnchanged)
        => comp'.children = Thunk(Store, comp).consumed
     /\ (Step("patch") /\ last'.type = "person" /\ BylineCurrent)
        => IF last'.id = AuthorFollowed
           THEN TagValueChanges /\ ~CompValid'
           ELSE ~TagValueChanges /\ (CompValid => CompValid')]_vars

\* C31 happens: the article names the second person as its author, byline
\* was evaluated after that, and then the first person, the author the
\* article was created with, was patched: the tag still validates
C31_Witness ==
  /\ BylineCurrent
  /\ AuthorFollowed = OtherId
  /\ last.op = "patch" /\ last.type = "person" /\ last.id = "id1"
  /\ DatabaseImpl_revision(Store, "person", "id1") > comp.stamp
  /\ comp.children = {EntityAt(comp.type, comp.id).entityTag,
                      EntityAt("person", OtherId).entityTag}
  /\ CompValid

\* the read operations of the store
ReadOps == {"get", "all", "allTag", "entityTag", "propertyTag", "revision", "validate"}

\* the step is value() of the reference held
Evaluates == comp.name # "none" /\ comp'.name = comp.name /\ last' = last

\* the step leaves the global revision, the stamp of every tag there is,
\* every properties object and every collection there is as they were
ExistingKept ==
  /\ revision' = revision
  /\ Len(tags') >= Len(tags)
  /\ \A i \in 1..Len(tags) : tags'[i] = tags[i]
  /\ objs' = objs
  /\ \A type \in Types :
       indexByType[type].exists => indexByType'[type] = indexByType[type]

\* C34: checkout, all, entityTag, propertyTag, allTag, revision, validate
\* and the evaluation of a derived computation or query leave the stamp of
\* every existing tag, the stored properties of every entity and the global
\* revision unchanged.
C34_ReadsWriteNothing ==
  [][((last' # last /\ last'.op \in ReadOps) \/ Evaluates) => ExistingKept]_vars

\* C34 happens: with an entity in the store a computation was evaluated
\* and then the revision of the entity was read; it is the stamp its
\* entity tag was created with
C34_Witness ==
  /\ last.op = "revision" /\ ~last.raised
  /\ Present(last.type, last.id)
  /\ comp.state = "value"
  /\ last.n = 1 /\ revision = 1
  /\ last.data.value = 0

\* the operations that can raise
RaisingOps ==
  {"insert", "patch", "delete", "get", "entityTag", "propertyTag", "revision", "validate"}

\* C35: an operation of the database that raises (patch, delete, checkout,
\* entityTag or propertyTag on an absent id or on a type with no collection,
\* insert by the name of an unregistered type) leaves the collections, the
\* stored properties, the stamp of every tag and the global revision as
\* they were before the call.
C35_RaisingCallChangesNothing ==
  [][(last' # last /\ last'.raised /\ last'.op \in RaisingOps)
       => (StoreUnchanged /\ issued' = issued)]_vars

\* C35 happens: with an entity of the type in the store, a delete of an
\* absent id of the type raised
C35_Witness ==
  /\ last.raised /\ last.op = "delete"
  /\ \E id \in RefIds(last.type) : Present(last.type, id)
  /\ ~Present(last.type, last.id)
  /\ revision > 0

\* the step puts another entity under the reference or deletes the entity
Replaces(type, id) ==
  /\ last'.n # last.n
  /\ last'.op \in {"insert", "insertRef", "delete"}
  /\ last'.type = type /\ last'.id = id

\* C38: derivedTag(ref, name) returns the same tag at every call while the
\* entity stays present, and nothing short of replacing the entity dirties
\* or updates that tag: its value is constant across patches of the entity
\* and across evaluations of query(ref, name), whose tag is another tag,
\* newer than it after a patch of the entity.
C38_DerivedTagIsKept ==
  [][/\ \A type \in Types : \A id \in Ids : \A name \in DerivedNames(type) :
          (/\ Present(type, id)
           /\ name \in DOMAIN EntityAt(type, id).derivedTags
           /\ ~Replaces(type, id))
          => LET t == EntityAt(type, id).derivedTags[name]
             IN  /\ Has(indexByType'[type], id)
                 /\ name \in DOMAIN indexByType'[type].entities[id].derivedTags
                 /\ indexByType'[type].entities[id].derivedTags[name] = t
                 /\ tags'[t] = tags[t]
                 /\ t \notin comp'.children
                 /\ (/\ Step("patch") /\ last'.type = type /\ last'.id = id
                     /\ comp.state = "value" /\ comp.name = name
                     /\ comp.type = type /\ comp.id = id
                     /\ EntityAt(type, id).entityTag \in comp.children)
                    => ComputedTag_value(Store', comp'.children) > tags'[t]
     /\ (last' # last /\ last'.op = "derivedTag" /\ ~last'.raised)
          => last'.data.tag
               = indexByType'[last'.type].entities[last'.id].derivedTags[last'.data.name]
    ]_vars

\* C38 happens: the derived tag of an entity of the fixture was created
\* before any mutation, the query of the same name was evaluated on the
\* entity as it is, the entity was patched, and derivedTag returned the tag
\* with the stamp it was created with, older than the query's tag
C38_Witness ==
  /\ last.op = "derivedTag" /\ ~last.raised /\ last.n >= 1
  /\ Present(last.type, last.id)
  /\ comp.state = "value" /\ comp.name = last.data.name
  /\ comp.type = last.type /\ comp.id = last.id
  /\ EntityAt(last.type, last.id).entityTag \in comp.children
  /\ tags[last.data.tag] = FixtureStore.revision
  /\ ComputedTag_value(Store, comp.children) > FixtureStore.revision
  /\ Tag_value(Store, EntityAt(last.type, last.id).entityTag) > FixtureStore.revision

\* C32: in the index that keeps EntityTags, a patch of property a of an
\* entity leaves the stamp of the tag of each sibling property b as it was
\* and dirties the entity tag.
C32_PatchKeepsSiblingTags ==
  [][Step("patch") =>
       LET e == EntityAt(last'.type, last'.id)
       IN  /\ \A b \in DOMAIN e.propertyTags \ DOMAIN last'.data :
                Tag_value(Store', e.propertyTags[b]) = Tag_value(Store, e.propertyTags[b])
           /\ Tag_value(Store', e.entityTag) > Tag_value(Store, e.entityTag)]_vars

\* C33: in the index that keeps EntityTags, a patch that raises because a
\* key of the updates was not present at insert leaves the stored
\* properties of the entity, as a later checkout sees them, and the stamp
\* of every tag as they were before the call.
C33_FailedPatchChangesNothing ==
  [][(last'.op = "patch" /\ last'.raised /\ last'.n = last.n
      /\ Has(indexByType[last'.type], last'.id))
     => /\ tags' = tags /\ revision' = revision
        /\ objs'[indexByType'[last'.type].entities[last'.id].properties]
             = objs[EntityAt(last'.type, last'.id).properties]]_vars

====
